---- MODULE Spec2Model ----
(***************************************************************************)
(* Unscented Kalman filter of src/src/ukf.cpp (class UKF): the filter's    *)
(* fields, its constructor and ProcessMeasurement with everything it calls *)
(* (Prediction, AugmentedSigmaPoints, SigmaPointPrediction,                *)
(* PredictMeanAndCovariance, UpdateLidar, UpdateRadar).                    *)
(*                                                                         *)
(* Numbers.  A C++ double other than a weight is a fixed-point integer: the*)
(* value v is the integer v * SCALE, products and quotients are truncated  *)
(* toward zero.  TLC's integers are 32 bits wide and TLC stops with an     *)
(* error on overflow and on division by zero, so a run that completes      *)
(* never left the representable range and never divided by zero.  The      *)
(* weights are kept as IEEE-754 doubles (sign, exponent, 53 bit            *)
(* significand), because what they sum to is a question about rounding.    *)
(*                                                                         *)
(* Records.  Every record constructor names its fields in the order in     *)
(* which the names first occur in this module, the order TLC keeps a       *)
(* record's fields in, so that a record is built in its stored form and    *)
(* TLC's workers never see it being rearranged.                            *)
(***************************************************************************)
EXTENDS Integers, Sequences, FiniteSets, TLC

(***************************************************************************)
(* Fixed-point arithmetic.                                                 *)
(***************************************************************************)
SCALE == 100 * 100

Abs(a) == IF a < 0 THEN 0 - a ELSE a

\* v / d for an integer d > 0, truncated toward zero as C++ does
TDiv(v, d) == IF v >= 0 THEN v \div d ELSE 0 - ((0 - v) \div d)

\* a * b of two fixed-point numbers; the operands are split at the point so
\* that no intermediate product is wider than the result
Mul(a, b) ==
  LET A == Abs(a)  B == Abs(b)
      ah == A \div SCALE  al == A % SCALE
      bh == B \div SCALE  bl == B % SCALE
      r == ah * bh * SCALE + ah * bl + al * bh + (al * bl) \div SCALE
  IN IF (a < 0) = (b < 0) THEN r ELSE 0 - r

\* a / b of two fixed-point numbers, by long division (two digits a step)
Div(a, b) ==
  LET A == Abs(a)  B == Abs(b)
      q == A \div B          r == A % B
      q1 == (r * 100) \div B  r1 == (r * 100) % B
      q2 == (r1 * 100) \div B
      res == q * SCALE + q1 * 100 + q2
  IN IF (a < 0) = (b < 0) THEN res ELSE 0 - res

RECURSIVE Newton(_, _)
Newton(n, x) == LET y == (x + n \div x) \div 2 IN IF y >= x THEN x ELSE Newton(n, y)

\* floor of the square root of the integer n >= 0
ISqrt(n) == IF n < 2 THEN n ELSE Newton(n, n)

MaxInt == 2147483646 + 1

\* sqrt of a fixed-point number a >= 0
Sqrt(a) ==
  IF a <= MaxInt \div SCALE THEN ISqrt(a * SCALE)
  ELSE IF a <= MaxInt \div 100 THEN ISqrt(a * 100) * 10
  ELSE ISqrt(a) * 100

\* sqrt(a*a + b*b)
Hypot(a, b) ==
  IF Abs(a) <= 32767 /\ Abs(b) <= 32767 THEN ISqrt(a * a + b * b)
  ELSE Sqrt(Mul(a, a) + Mul(b, b))

\* M_PI of <cmath>, 3.14159265358979..., as a fixed-point number
M_PI == 31416
HALF_PI == M_PI \div 2
TWO_PI == 2 * M_PI

\* p/f - p*x2/(f*(k+1)*(k+2)) + ... up to the power 9, for p = x^k, f = k!
RECURSIVE SinTerms(_, _, _, _)
SinTerms(p, x2, k, f) ==
  IF k > 9 THEN 0
  ELSE TDiv(p, f) - SinTerms(Mul(p, x2), x2, k + 2, f * (k + 1) * (k + 2))

\* sin of an angle in [-pi/2, pi/2]: x - x^3/3! + x^5/5! - x^7/7! + x^9/9!
SinSmall(x) == SinTerms(x, Mul(x, x), 1, 1)

Sin(a) ==
  LET r == ((a + M_PI) % TWO_PI) - M_PI
  IN SinSmall(IF r > HALF_PI THEN M_PI - r
              ELSE IF r < 0 - HALF_PI THEN 0 - M_PI - r
              ELSE r)

Cos(a) == Sin(a + HALF_PI)

\* p/k - p*u2/(k+2) + ... up to the power 7, for p = u^k
RECURSIVE AtanTerms(_, _, _)
AtanTerms(p, u2, k) ==
  IF k > 7 THEN 0 ELSE TDiv(p, k) - AtanTerms(Mul(p, u2), u2, k + 2)

\* atan of a small argument: u - u^3/3 + u^5/5 - u^7/7
AtanSmall(u) == AtanTerms(u, Mul(u, u), 1)

\* tan(atan(t) / 2)
HalfAngle(t) == Div(t, SCALE + Sqrt(SCALE + Mul(t, t)))

\* atan(t) for 0 <= t <= 1
Atan01(t) == 4 * AtanSmall(HalfAngle(HalfAngle(t)))

Atan2(y, x) ==
  LET ax == Abs(x)  ay == Abs(y)
      first == IF ax = 0 /\ ay = 0 THEN 0
               ELSE IF ax >= ay THEN Atan01(Div(ay, ax))
               ELSE HALF_PI - Atan01(Div(ax, ay))
      upper == IF x < 0 THEN M_PI - first ELSE first
  IN IF y >= 0 THEN upper ELSE 0 - upper

(***************************************************************************)
(* IEEE-754 doubles, for the weights.  A double is [neg, exp, hi, lo]: its *)
(* value is (-1)^neg * (hi * 2^26 + lo) * 2^(exp - 52), the 53 bit         *)
(* significand being hi * 2^26 + lo with 2^26 <= hi < 2^27, 0 <= lo < 2^26.*)
(***************************************************************************)
P13 == 64 * 128
P26 == P13 * P13

RECURSIVE Pow2(_)
Pow2(k) == IF k = 0 THEN 1 ELSE 2 * Pow2(k - 1)

\* the next `bits` binary digits of r / d (0 <= r < d), and the remainder
RECURSIVE LongDiv(_, _, _, _)
LongDiv(q, r, d, bits) ==
  IF bits = 0 THEN [r |-> r, q |-> q]
  ELSE IF 2 * r >= d THEN LongDiv(2 * q + 1, 2 * r - d, d, bits - 1)
  ELSE LongDiv(2 * q, 2 * r, d, bits - 1)

\* a / d scaled into [1, 2): the exponent, and the scaled operands
RECURSIVE Normalise(_, _, _)
Normalise(a, d, e) ==
  IF a >= 2 * d THEN Normalise(a, 2 * d, e + 1)
  ELSE IF a < d THEN Normalise(2 * a, d, e - 1)
  ELSE [a |-> a, d |-> d, e |-> e]

\* The double that the division num / den of two doubles holding the
\* integers num # 0 and den > 0 yields: the quotient rounded to 53 bits,
\* to nearest, ties to even.
DoubleQuot(num, den) ==
  LET n == Normalise(Abs(num), den, 0)
      h == LongDiv(1, n.a - n.d, n.d, 26)
      l == LongDiv(0, h.r, n.d, 26)
      up == 2 * l.r > n.d \/ (2 * l.r = n.d /\ l.q % 2 = 1)
      lo == IF up THEN l.q + 1 ELSE l.q
      hi == IF lo = P26 THEN h.q + 1 ELSE h.q
  IN IF hi = 2 * P26
     THEN [lo |-> 0, hi |-> P26, neg |-> num < 0, exp |-> n.e + 1]
     ELSE [lo |-> lo % P26, hi |-> hi, neg |-> num < 0, exp |-> n.e]

\* w * v for a double w and a fixed-point v, truncated toward zero.  The
\* product uses the leading 27 bits of the significand: the other 26 change
\* it by less than |v| / 2^26, which is below the fixed-point resolution
\* for every |v| the filter reaches.
MulW(w, v) ==
  LET V == Abs(v)
      v1 == V \div P13  v0 == V % P13
      h1 == w.hi \div P13  h0 == w.hi % P13
      t == v1 * h1 + ((v1 * h0 + v0 * h1) + (v0 * h0) \div P13) \div P13
      r == IF w.exp >= 0 THEN t * Pow2(w.exp) ELSE t \div Pow2(0 - w.exp)
  IN IF w.neg = (v < 0) THEN r ELSE 0 - r

(***************************************************************************)
(* Vectors are sequences, a matrix is the sequence of its rows, and a set  *)
(* of sigma points is the sequence of its columns (column i of the source  *)
(* is element i + 1).                                                      *)
(***************************************************************************)
\* << F(1), ..., F(n) >>
RECURSIVE Tab(_, _)
Tab(F(_), n) == IF n = 0 THEN << >> ELSE Append(Tab(F, n - 1), F(n))

\* F(1) + ... + F(n)
RECURSIVE Sum(_, _)
Sum(F(_), n) == IF n = 0 THEN 0 ELSE Sum(F, n - 1) + F(n)

Zero(n) == Tab(LAMBDA i : 0, n)
Identity(n) == Tab(LAMBDA i : Tab(LAMBDA j : IF i = j THEN SCALE ELSE 0, n), n)
Transpose(A) == Tab(LAMBDA j : Tab(LAMBDA i : A[i][j], Len(A)), Len(A[1]))

\* A * B
MatMul(A, B) ==
  Tab(LAMBDA i : Tab(LAMBDA j : Sum(LAMBDA k : Mul(A[i][k], B[k][j]), Len(B)),
                     Len(B[1])),
      Len(A))

\* A * v
MatVec(A, v) == Tab(LAMBDA i : Sum(LAMBDA k : Mul(A[i][k], v[k]), Len(v)), Len(A))

MatAdd(A, B) == Tab(LAMBDA i : Tab(LAMBDA j : A[i][j] + B[i][j], Len(A[1])), Len(A))
MatSub(A, B) == Tab(LAMBDA i : Tab(LAMBDA j : A[i][j] - B[i][j], Len(A[1])), Len(A))
VecAdd(a, b) == Tab(LAMBDA i : a[i] + b[i], Len(a))
VecSub(a, b) == Tab(LAMBDA i : a[i] - b[i], Len(a))

\* sum over the columns i of w[i] * X[i], for doubles w
WeightedMean(w, X) ==
  Tab(LAMBDA r : Sum(LAMBDA i : MulW(w[i], X[i][r]), Len(X)), Len(X[1]))

\* sum over the columns i of w[i] * A[i] * B[i]^T, for doubles w: each
\* product is taken left to right
WeightedOuter(w, A, B) ==
  Tab(LAMBDA a : Tab(LAMBDA b : Sum(LAMBDA i : Mul(MulW(w[i], A[i][a]), B[i][b]), Len(A)),
                     Len(B[1])),
      Len(A[1]))

\* MatrixXd::inverse() of a 2x2 or 3x3 matrix, by cofactors
Det2(a, b, c, d) == Mul(a, d) - Mul(b, c)

Inverse2(A) ==
  LET det == Det2(A[1][1], A[1][2], A[2][1], A[2][2])
  IN << << Div(A[2][2], det), Div(0 - A[1][2], det) >>,
        << Div(0 - A[2][1], det), Div(A[1][1], det) >> >>

Cofactor3(A, i, j) ==
  LET r == IF i = 1 THEN << 2, 3 >> ELSE IF i = 2 THEN << 1, 3 >> ELSE << 1, 2 >>
      c == IF j = 1 THEN << 2, 3 >> ELSE IF j = 2 THEN << 1, 3 >> ELSE << 1, 2 >>
      m == Det2(A[r[1]][c[1]], A[r[1]][c[2]], A[r[2]][c[1]], A[r[2]][c[2]])
  IN IF (i + j) % 2 = 0 THEN m ELSE 0 - m

Inverse3(A) ==
  LET C == Tab(LAMBDA i : Tab(LAMBDA j : Cofactor3(A, i, j), 3), 3)
      det == Mul(A[1][1], C[1][1]) + Mul(A[1][2], C[1][2]) + Mul(A[1][3], C[1][3])
  IN Tab(LAMBDA i : Tab(LAMBDA j : Div(C[j][i], det), 3), 3)

Inverse(A) == IF Len(A) = 2 THEN Inverse2(A) ELSE Inverse3(A)

\* P_aug.llt(): Eigen's in-place Cholesky factorisation.  Column k of the
\* lower triangle is replaced by column k of the factor; at the first pivot
\* that is not positive the factorisation stops, reports NumericalIssue in
\* info() and leaves the remaining columns as they were.  It never throws.
RECURSIVE LltStep(_, _)
LltStep(A, k) ==
  IF k > Len(A) THEN [mat |-> A, info |-> "Success"]
  ELSE LET x == A[k][k] - Sum(LAMBDA j : Mul(A[k][j], A[k][j]), k - 1)
           d == Sqrt(x)
       IN IF x <= 0 THEN [mat |-> A, info |-> "NumericalIssue"]
          ELSE LltStep(
                 Tab(LAMBDA i :
                       Tab(LAMBDA j :
                             IF j # k \/ i < k THEN A[i][j]
                             ELSE IF i = k THEN d
                             ELSE Div(A[i][k] - Sum(LAMBDA t : Mul(A[i][t], A[k][t]), k - 1), d),
                           Len(A)),
                     Len(A)),
                 k + 1)

llt(A) == LltStep(A, 1)

\* .matrixL(): the lower triangular part
matrixL(A) == Tab(LAMBDA i : Tab(LAMBDA j : IF j <= i THEN A[i][j] ELSE 0, Len(A)), Len(A))

(***************************************************************************)
(* UKF::UKF(): the dimensions and the noise parameters.                    *)
(***************************************************************************)
n_x_ == 5
n_aug_ == 7
n_sig_ == 2 * n_aug_ + 1
n_z_radar_ == 3
n_z_laser_ == 2
lambda_ == 3 - n_aug_

std_a_ == 2500
std_yawdd_ == Mul(Div(20 * SCALE, 100 * SCALE), M_PI)
std_laspx_ == 1500
std_laspy_ == 1500
std_radr_ == 3000
std_radphi_ == 300
std_radrd_ == 3000

R_lidar_ ==
  << << Mul(std_laspx_, std_laspx_), 0 >>,
     << 0, Mul(std_laspy_, std_laspy_) >> >>

R_radar_ ==
  << << Mul(std_radr_, std_radr_), 0, 0 >>,
     << 0, Mul(std_radphi_, std_radphi_), 0 >>,
     << 0, 0, Mul(std_radrd_, std_radrd_) >> >>

\* The fields the constructor assigns.  weights_ and Xsig_pred_ are not
\* among them: they stay the empty vector and matrix of their default
\* constructors.  Lines 47 and 50 set use_laser_ and use_radar_, the two
\* switches ProcessMeasurement reads (lines 113, 125, 169, 173); the source
\* sets both to true and provides for either position of each, so the
\* filter is constructed here for every setting of the two lines.
Constructed(laser, radar) ==
  [ is_initialized_ |-> FALSE,
    time_us_        |-> 0,
    NIS_radar_      |-> 0,
    NIS_laser_      |-> 0,
    use_laser_      |-> laser,
    use_radar_      |-> radar,
    x_              |-> Zero(n_x_),
    P_              |-> Identity(n_x_),
    weights_        |-> << >>,
    Xsig_pred_      |-> << >>,
    log             |-> << >>,
    delta_t         |-> 0,
    llt_info        |-> "None" ]

(***************************************************************************)
(* Tools::NormalizeAngle: the angle wrapped into (-pi, pi].                *)
(***************************************************************************)
NormalizeAngle(a) ==
  LET r == ((a + M_PI) % TWO_PI) - M_PI
  IN IF r = 0 - M_PI THEN M_PI ELSE r

\* v with its component k wrapped (k = 0: none)
Wrapped(v, k) == IF k = 0 THEN v ELSE [v EXCEPT ![k] = NormalizeAngle(v[k])]

\* the columns X[i] - mean, each with its component k wrapped
Residuals(X, mean, k) == Tab(LAMBDA i : Wrapped(VecSub(X[i], mean), k), Len(X))

(***************************************************************************)
(* Prediction.  Each operation takes the filter and returns the filter it  *)
(* leaves; log is the sequence of the member functions run so far in the   *)
(* current ProcessMeasurement call.                                        *)
(***************************************************************************)
\* sqrt(lambda_ + n_aug_) * L.col(i)
ScaledColumn(L, i) ==
  Tab(LAMBDA r : Mul(Sqrt((lambda_ + n_aug_) * SCALE), L[r][i]), Len(L))

\* the columns of Xsig_aug: x_aug, then x_aug + and x_aug - each scaled
\* column of L
SigmaColumns(x_aug, L) ==
  Tab(LAMBDA k : IF k = 1 THEN x_aug
                 ELSE IF k <= n_aug_ + 1 THEN VecAdd(x_aug, ScaledColumn(L, k - 1))
                 ELSE VecSub(x_aug, ScaledColumn(L, k - 1 - n_aug_)),
      n_sig_)

\* The result of llt() is used as it is: info() is not looked at.
AugmentedSigmaPoints(this) ==
  LET x_aug == this.x_ \o << 0, 0 >>
      P_aug == Tab(LAMBDA i :
                     Tab(LAMBDA j :
                           IF i <= n_x_ /\ j <= n_x_ THEN this.P_[i][j]
                           ELSE IF i = 6 /\ j = 6 THEN Mul(std_a_, std_a_)
                           ELSE IF i = 7 /\ j = 7 THEN Mul(std_yawdd_, std_yawdd_)
                           ELSE 0,
                         n_aug_),
                   n_aug_)
      f == llt(P_aug)
  IN [ this |-> [this EXCEPT !.llt_info = f.info,
                             !.log = Append(@, "AugmentedSigmaPoints")],
       Xsig_aug |-> SigmaColumns(x_aug, matrixL(f.mat)) ]

YAWD_MIN == 10
HALF == SCALE \div 2

\* one column of the loop of SigmaPointPrediction
PredictPoint(p, delta_t) ==
  LET p_x == p[1]  p_y == p[2]  v == p[3]  yaw == p[4]  yawd == p[5]
      nu_a == p[6]  nu_yawdd == p[7]
      turning == Abs(yawd) > YAWD_MIN
      px0 == IF turning
             THEN p_x + Mul(Div(v, yawd), Sin(yaw + Mul(yawd, delta_t)) - Sin(yaw))
             ELSE p_x + Mul(Mul(v, delta_t), Cos(yaw))
      py0 == IF turning
             THEN p_y + Mul(Div(v, yawd), Cos(yaw) - Cos(yaw + Mul(yawd, delta_t)))
             ELSE p_y + Mul(Mul(v, delta_t), Sin(yaw))
      acc == Mul(Mul(Mul(HALF, nu_a), delta_t), delta_t)
  IN << px0 + Mul(acc, Cos(yaw)),
        py0 + Mul(acc, Sin(yaw)),
        v + Mul(nu_a, delta_t),
        yaw + Mul(yawd, delta_t) + Mul(Mul(Mul(HALF, nu_yawdd), delta_t), delta_t),
        yawd + Mul(nu_yawdd, delta_t) >>

\* called as SigmaPointPrediction(&Xsig_pred_, Xsig_aug, delta_t)
SigmaPointPrediction(this, Xsig_aug, delta_t) ==
  [this EXCEPT !.Xsig_pred_ = Tab(LAMBDA i : PredictPoint(Xsig_aug[i], delta_t), n_sig_),
               !.log = Append(@, "SigmaPointPrediction")]

\* Weights with the fault of a loop that starts at column 0: every weight
\* is 0.5/(lambda_+n_aug_)
WeightsUniform == Tab(LAMBDA i : DoubleQuot(1, 2 * (lambda_ + n_aug_)), n_sig_)

\* the weights: weight_0 = lambda_/(lambda_+n_aug_), the others
\* 0.5/(lambda_+n_aug_); 0.5 is the double 1/2, so the second quotient is
\* that of 1 by 2*(lambda_+n_aug_)
Weights ==
  Tab(LAMBDA i : IF i = 1 THEN DoubleQuot(lambda_, lambda_ + n_aug_)
                 ELSE DoubleQuot(1, 2 * (lambda_ + n_aug_)),
      n_sig_)

\* called as PredictMeanAndCovariance(&x_, &P_, &weights_)
PredictMeanAndCovariance(this) ==
  LET x == WeightedMean(Weights, this.Xsig_pred_)
      x_diff == Residuals(this.Xsig_pred_, x, 4)
  IN [this EXCEPT !.x_ = x,
                  !.P_ = WeightedOuter(Weights, x_diff, x_diff),
                  !.weights_ = Weights,
                  !.log = Append(@, "PredictMeanAndCovariance")]

Prediction(this, delta_t) ==
  LET a == AugmentedSigmaPoints([this EXCEPT !.log = Append(@, "Prediction")])
  IN PredictMeanAndCovariance(SigmaPointPrediction(a.this, a.Xsig_aug, delta_t))

(***************************************************************************)
(* Update.  Both updates read the members Xsig_pred_ and weights_ as the   *)
(* filter holds them when the update is entered.                           *)
(***************************************************************************)
\* The end of both updates: the Kalman gain K = Tc * S^-1, the new state
\* and covariance, and the NIS value z_diff^T * S^-1 * z_diff.
Correction(this, z_diff, S, Si, Tc) ==
  LET K == MatMul(Tc, Si)
      zSi == Tab(LAMBDA j : Sum(LAMBDA k : Mul(z_diff[k], Si[k][j]), Len(z_diff)),
                 Len(z_diff))
  IN [ x   |-> VecAdd(this.x_, MatVec(K, z_diff)),
       P   |-> MatSub(this.P_, MatMul(MatMul(K, S), Transpose(K))),
       NIS |-> Sum(LAMBDA k : Mul(zSi[k], z_diff[k]), Len(z_diff)) ]

\* The part UpdateLidar and UpdateRadar have in common, from the mean
\* predicted measurement on: Zsig are the sigma points in measurement
\* space, R the measurement noise, angle the component of a residual that
\* is normalised (0: none).
Innovation(this, Zsig, z, R, angle) ==
  LET z_pred == WeightedMean(this.weights_, Zsig)
      z_diffs == Residuals(Zsig, z_pred, angle)
      x_diffs == Residuals(this.Xsig_pred_, this.x_, 4)
      S == MatAdd(WeightedOuter(this.weights_, z_diffs, z_diffs), R)
  IN Correction(this, Wrapped(VecSub(z, z_pred), angle), S, Inverse(S),
                WeightedOuter(this.weights_, x_diffs, z_diffs))

\* UpdateLidar with the fault of a line copied from UpdateRadar: the NIS
\* value is written to NIS_radar_
UpdateLidarRadarNIS(this, meas_package) ==
  LET Zsig == Tab(LAMBDA i : SubSeq(this.Xsig_pred_[i], 1, n_z_laser_), n_sig_)
      u == Innovation(this, Zsig, meas_package.raw_measurements_, R_lidar_, 0)
  IN [this EXCEPT !.x_ = u.x, !.P_ = u.P, !.NIS_radar_ = u.NIS,
                  !.log = Append(@, "UpdateLidar")]

UpdateLidar(this, meas_package) ==
  LET Zsig == Tab(LAMBDA i : SubSeq(this.Xsig_pred_[i], 1, n_z_laser_), n_sig_)
      u == Innovation(this, Zsig, meas_package.raw_measurements_, R_lidar_, 0)
  IN [this EXCEPT !.x_ = u.x, !.P_ = u.P, !.NIS_laser_ = u.NIS,
                  !.log = Append(@, "UpdateLidar")]

\* One column of Zsig in UpdateRadar.  A fixed-point number is below the
\* machine epsilon exactly when it is 0.  With p_x = p_y = epsilon the
\* bearing and the range rate depend only on the ratio p_y : p_x, which is
\* taken at unit size.
RadarPoint(p) ==
  LET v1 == Mul(Cos(p[4]), p[3])
      v2 == Mul(Sin(p[4]), p[3])
      tiny == p[1] = 0 /\ p[2] = 0
      p_x == IF tiny THEN SCALE ELSE p[1]
      p_y == IF tiny THEN SCALE ELSE p[2]
  IN << Hypot(p[1], p[2]),
        Atan2(p_y, p_x),
        Div(Mul(p_x, v1) + Mul(p_y, v2), Hypot(p_x, p_y)) >>

UpdateRadar(this, meas_package) ==
  LET Zsig == Tab(LAMBDA i : RadarPoint(this.Xsig_pred_[i]), n_sig_)
      u == Innovation(this, Zsig, meas_package.raw_measurements_, R_radar_, 2)
  IN [this EXCEPT !.x_ = u.x, !.P_ = u.P, !.NIS_radar_ = u.NIS,
                  !.log = Append(@, "UpdateRadar")]

(***************************************************************************)
(* ProcessMeasurement.  A measurement package is                           *)
(* [sensor_type_, raw_measurements_, timestamp_], the timestamp in         *)
(* microseconds.  The function returns void and has no throw statement: it *)
(* returns normally on both of its paths.                                  *)
(***************************************************************************)
US_PER_S == 1000000

\* Initialization with the fault of lines 46 and 49 taken at their word
\* ("ignored (except during init)"): the first measurement initializes
\* whatever the switches say
InitializationAnySensor(this, meas_package) ==
  LET z == meas_package.raw_measurements_
      first ==
        IF meas_package.sensor_type_ = "RADAR"
        THEN [this EXCEPT !.x_ = << Mul(z[1], Cos(z[2])), Mul(z[1], Sin(z[2])),
                                   z[3], 0, 0 >>,
                          !.is_initialized_ = TRUE]
        ELSE [this EXCEPT !.x_ = << z[1], z[2], 0, 0, 0 >>,
                          !.is_initialized_ = TRUE]
  IN [first EXCEPT !.time_us_ = meas_package.timestamp_]

\* Initialization with the fault of line 135 placed inside the radar branch:
\* a position reading initializes without its timestamp
InitializationNoTimestamp(this, meas_package) ==
  LET z == meas_package.raw_measurements_
  IN IF this.use_radar_ /\ meas_package.sensor_type_ = "RADAR"
     THEN [this EXCEPT !.x_ = << Mul(z[1], Cos(z[2])), Mul(z[1], Sin(z[2])),
                                z[3], 0, 0 >>,
                       !.is_initialized_ = TRUE,
                       !.time_us_ = meas_package.timestamp_]
     ELSE IF this.use_laser_ /\ meas_package.sensor_type_ = "LASER"
     THEN [this EXCEPT !.x_ = << z[1], z[2], 0, 0, 0 >>,
                       !.is_initialized_ = TRUE]
     ELSE [this EXCEPT !.time_us_ = meas_package.timestamp_]

\* Initialization with the fault of a radar branch that drops ro_dot
InitializationZeroSpeed(this, meas_package) ==
  LET z == meas_package.raw_measurements_
      first ==
        IF this.use_radar_ /\ meas_package.sensor_type_ = "RADAR"
        THEN [this EXCEPT !.x_ = << Mul(z[1], Cos(z[2])), Mul(z[1], Sin(z[2])),
                                   0, 0, 0 >>,
                          !.is_initialized_ = TRUE]
        ELSE IF this.use_laser_ /\ meas_package.sensor_type_ = "LASER"
        THEN [this EXCEPT !.x_ = << z[1], z[2], 0, 0, 0 >>,
                          !.is_initialized_ = TRUE]
        ELSE this
  IN [first EXCEPT !.time_us_ = meas_package.timestamp_]

\* lines 111-142: the branch taken while the filter is not initialized
Initialization(this, meas_package) ==
  LET z == meas_package.raw_measurements_
      first ==
        IF this.use_radar_ /\ meas_package.sensor_type_ = "RADAR"
        THEN [this EXCEPT !.x_ = << Mul(z[1], Cos(z[2])), Mul(z[1], Sin(z[2])),
                                   z[3], 0, 0 >>,
                          !.is_initialized_ = TRUE]
        ELSE IF this.use_laser_ /\ meas_package.sensor_type_ = "LASER"
        THEN [this EXCEPT !.x_ = << z[1], z[2], 0, 0, 0 >>,
                          !.is_initialized_ = TRUE]
        ELSE this
  IN [first EXCEPT !.time_us_ = meas_package.timestamp_]

\* lines 169-177: the update the sensor type selects, if it is switched on
Update(this, meas_package) ==
  IF this.use_radar_ /\ meas_package.sensor_type_ = "RADAR"
  THEN UpdateRadar(this, meas_package)
  ELSE IF this.use_laser_ /\ meas_package.sensor_type_ = "LASER"
  THEN UpdateLidar(this, meas_package)
  ELSE this

\* the elapsed time in seconds (line 154)
Elapsed(this, meas_package) ==
  TDiv(meas_package.timestamp_ - this.time_us_, US_PER_S \div SCALE)

\* log, delta_t and llt_info describe one call: they start empty
Entered(this) == [this EXCEPT !.log = << >>, !.delta_t = 0, !.llt_info = "None"]

\* ProcessMeasurement with the fault of line 155 left out: the stored
\* timestamp stays that of the initialization
ProcessMeasurementStaleTime(this, meas_package) ==
  IF ~this.is_initialized_
  THEN Initialization(Entered(this), meas_package)
  ELSE Update(Prediction([Entered(this) EXCEPT !.delta_t = Elapsed(this, meas_package)],
                         Elapsed(this, meas_package)),
              meas_package)

\* ProcessMeasurement with a guard the source does not have: a timestamp
\* that is not later than the stored one ends the call
ProcessMeasurementGuarded(this, meas_package) ==
  IF ~this.is_initialized_
  THEN Initialization(Entered(this), meas_package)
  ELSE IF meas_package.timestamp_ <= this.time_us_
  THEN Entered(this)
  ELSE Update(Prediction([Entered(this) EXCEPT !.time_us_ = meas_package.timestamp_,
                                                !.delta_t = Elapsed(this, meas_package)],
                         Elapsed(this, meas_package)),
              meas_package)

\* ProcessMeasurement with the fault of a shortcut: when no time has
\* elapsed and sigma points exist, the prediction is left out and the
\* update works on the sigma points of the call before
ProcessMeasurementSkipZero(this, meas_package) ==
  IF ~this.is_initialized_
  THEN Initialization(Entered(this), meas_package)
  ELSE IF Elapsed(this, meas_package) = 0 /\ this.Xsig_pred_ # << >>
  THEN Update([Entered(this) EXCEPT !.time_us_ = meas_package.timestamp_], meas_package)
  ELSE Update(Prediction([Entered(this) EXCEPT !.time_us_ = meas_package.timestamp_,
                                                !.delta_t = Elapsed(this, meas_package)],
                         Elapsed(this, meas_package)),
              meas_package)

ProcessMeasurement(this, meas_package) ==
  IF ~this.is_initialized_
  THEN Initialization(Entered(this), meas_package)
  ELSE Update(Prediction([Entered(this) EXCEPT !.time_us_ = meas_package.timestamp_,
                                                !.delta_t = Elapsed(this, meas_package)],
                         Elapsed(this, meas_package)),
              meas_package)

(***************************************************************************)
(* The filter as a state machine: one UKF object and the stream of         *)
(* measurement packages its caller feeds to ProcessMeasurement.            *)
(***************************************************************************)
VARIABLES
  is_initialized_, use_laser_, use_radar_, time_us_, x_, P_,
  NIS_laser_, NIS_radar_, weights_, Xsig_pred_,
  log,       \* the member functions the last call ran, in order
  delta_t,   \* the delta_t of the last call (0 if it computed none)
  llt_info,  \* info() of the factorisation in the last call ("None": none)
  meas,      \* the measurement package of the last call
  n_calls    \* the number of calls so far

vars == << is_initialized_, use_laser_, use_radar_, time_us_, x_, P_,
           NIS_laser_, NIS_radar_, weights_, Xsig_pred_,
           log, delta_t, llt_info, meas, n_calls >>

\* the calls a run makes
MaxCalls == 3

\* what the caller feeds: position readings (px, py), polar readings
\* (rho, phi, rho_dot), timestamps in microseconds
LaserReadings == { << 10000, 5000 >> }
RadarReadings == { << 50000, 0, 20000 >>, << 10000, 5000, 0 >> }
Timestamps == { 0, 1000000, 2000000 }

NoPackage == [raw_measurements_ |-> << >>, sensor_type_ |-> "NONE", timestamp_ |-> 0]

This ==
  [ is_initialized_ |-> is_initialized_, time_us_ |-> time_us_,
    NIS_radar_ |-> NIS_radar_, NIS_laser_ |-> NIS_laser_,
    use_laser_ |-> use_laser_, use_radar_ |-> use_radar_,
    x_ |-> x_, P_ |-> P_, weights_ |-> weights_, Xsig_pred_ |-> Xsig_pred_,
    log |-> log, delta_t |-> delta_t, llt_info |-> llt_info ]

Becomes(r) ==
  /\ is_initialized_' = r.is_initialized_
  /\ time_us_' = r.time_us_
  /\ NIS_radar_' = r.NIS_radar_
  /\ NIS_laser_' = r.NIS_laser_
  /\ use_laser_' = r.use_laser_
  /\ use_radar_' = r.use_radar_
  /\ x_' = r.x_
  /\ P_' = r.P_
  /\ weights_' = r.weights_
  /\ Xsig_pred_' = r.Xsig_pred_
  /\ log' = r.log
  /\ delta_t' = r.delta_t
  /\ llt_info' = r.llt_info

Init ==
  /\ \E laser \in BOOLEAN, radar \in BOOLEAN :
       LET r == Constructed(laser, radar)
       IN /\ is_initialized_ = r.is_initialized_
          /\ time_us_ = r.time_us_
          /\ NIS_radar_ = r.NIS_radar_
          /\ NIS_laser_ = r.NIS_laser_
          /\ use_laser_ = r.use_laser_
          /\ use_radar_ = r.use_radar_
          /\ x_ = r.x_
          /\ P_ = r.P_
          /\ weights_ = r.weights_
          /\ Xsig_pred_ = r.Xsig_pred_
          /\ log = r.log
          /\ delta_t = r.delta_t
          /\ llt_info = r.llt_info
  /\ meas = NoPackage
  /\ n_calls = 0

Call(meas_package) ==
  /\ n_calls < MaxCalls
  /\ Becomes(ProcessMeasurement(This, meas_package))
  /\ meas' = meas_package
  /\ n_calls' = n_calls + 1

LaserMeasurement ==
  \E z \in LaserReadings, t \in Timestamps :
    Call([raw_measurements_ |-> z, sensor_type_ |-> "LASER", timestamp_ |-> t])

RadarMeasurement ==
  \E z \in RadarReadings, t \in Timestamps :
    Call([raw_measurements_ |-> z, sensor_type_ |-> "RADAR", timestamp_ |-> t])

Next == LaserMeasurement \/ RadarMeasurement

Spec == Init /\ [][Next]_vars

(***************************************************************************)
(* Properties.  In an action formula the unprimed variables are the filter *)
(* when ProcessMeasurement is entered, the primed ones the filter when it  *)
(* returns, and meas' is the measurement package of the call.              *)
(***************************************************************************)
\* the sensor of measurement package m is switched off
Disabled(m) ==
  \/ m.sensor_type_ = "LASER" /\ ~use_laser_
  \/ m.sensor_type_ = "RADAR" /\ ~use_radar_

\* member function f is in the log l
Ran(l, f) == \E i \in 1..Len(l) : l[i] = f

\* what one Prediction leaves in the log
PredictionLog ==
  << "Prediction", "AugmentedSigmaPoints", "SigmaPointPrediction",
     "PredictMeanAndCovariance" >>

NISUnchanged == NIS_laser_' = NIS_laser_ /\ NIS_radar_' = NIS_radar_

\* vectors a and b, matrices A and B are numerically different: some entry
\* differs by more than 0.01, which no rounding of the arithmetic reaches
VecDiffers(a, b) == \E i \in 1..Len(a) : Abs(a[i] - b[i]) > SCALE \div 100
MatDiffers(A, B) == \E i \in 1..Len(A) : VecDiffers(A[i], B[i])

\* C1: in a Ready state, a call with a measurement of a switched-off sensor
\* leaves x_ and P_ (numerically) unchanged and writes neither NIS_laser_
\* nor NIS_radar_.
C1_DisabledMeasurementIsNoOp ==
  [][ (is_initialized_ /\ Disabled(meas')) =>
        (~VecDiffers(x_', x_) /\ ~MatDiffers(P_', P_) /\ NISUnchanged) ]_vars

C3_LaserInitialization ==
  [][ (~is_initialized_ /\ use_laser_ /\ meas'.sensor_type_ = "LASER") =>
        /\ x_' = << meas'.raw_measurements_[1], meas'.raw_measurements_[2], 0, 0, 0 >>
        /\ P_' = << << SCALE, 0, 0, 0, 0 >>, << 0, SCALE, 0, 0, 0 >>,
                    << 0, 0, SCALE, 0, 0 >>, << 0, 0, 0, SCALE, 0 >>,
                    << 0, 0, 0, 0, SCALE >> >>
        /\ time_us_' = meas'.timestamp_
        /\ is_initialized_'
        /\ NISUnchanged
        /\ log' = << >>
        /\ Xsig_pred_' = Xsig_pred_ ]_vars

C3_Witness ==
  n_calls = 1 /\ is_initialized_ /\ meas.sensor_type_ = "LASER" /\ time_us_ > 0

\* C4 as amended: when the measurement that initializes the filter is a
\* polar reading (rho, phi, rho_dot), x_ becomes the Cartesian position of
\* (rho, phi), the speed rho_dot, and heading and heading rate 0.  The
\* position is stated by the way back: its distance from the origin is
\* rho and its bearing phi, to three decimal places.
C4_RadarInitializationKeepsRangeRate ==
  [][ (~is_initialized_ /\ use_radar_ /\ meas'.sensor_type_ = "RADAR") =>
        /\ Len(x_') = n_x_
        /\ Abs(Hypot(x_'[1], x_'[2]) - meas'.raw_measurements_[1]) <= 10
        /\ Abs(Atan2(x_'[2], x_'[1]) - meas'.raw_measurements_[2]) <= 10
        /\ x_'[3] = meas'.raw_measurements_[3]
        /\ x_'[4] = 0
        /\ x_'[5] = 0 ]_vars

C4_Witness ==
  n_calls = 1 /\ is_initialized_ /\ meas.sensor_type_ = "RADAR" /\ x_[3] # 0

\* C4 as stated: the polar initialization sets velocity, heading and
\* heading rate all to zero, whatever the range rate.
C4_RadarInitializationZeroVelocity ==
  [][ (~is_initialized_ /\ use_radar_ /\ meas'.sensor_type_ = "RADAR") =>
        (x_'[3] = 0 /\ x_'[4] = 0 /\ x_'[5] = 0) ]_vars

\* C5: in a Ready state a call for a switched-on sensor computes delta_t as
\* this timestamp minus the timestamp of the package of the call before,
\* runs one Prediction and then the one update of the measurement's sensor
\* (UpdateLidar for LASER, UpdateRadar for RADAR), and returns with time_us_
\* equal to this timestamp.
C5_PredictThenMatchingUpdate ==
  [][ (is_initialized_ /\ ~Disabled(meas')) =>
        /\ time_us_ = meas.timestamp_
        /\ delta_t' * (US_PER_S \div SCALE) = meas'.timestamp_ - meas.timestamp_
        /\ log' = PredictionLog \o
                    << IF meas'.sensor_type_ = "LASER" THEN "UpdateLidar"
                       ELSE "UpdateRadar" >>
        /\ time_us_' = meas'.timestamp_ ]_vars

C5_Witness ==
  n_calls = 3 /\ delta_t = SCALE /\ Ran(log, "UpdateRadar") /\ time_us_ = 2 * US_PER_S

\* C6 as amended: a Ready call whose timestamp is not later than the
\* stored one is treated like any other call: it returns normally, having
\* computed the elapsed time (zero or negative), run one Prediction with it
\* and stored the timestamp.
C6_NonPositiveElapsedTimeIsPredicted ==
  [][ (is_initialized_ /\ meas'.timestamp_ <= time_us_) =>
        /\ delta_t' <= 0
        /\ delta_t' * (US_PER_S \div SCALE) = meas'.timestamp_ - time_us_
        /\ Len(log') >= 4
        /\ SubSeq(log', 1, 4) = PredictionLog
        /\ time_us_' = meas'.timestamp_ ]_vars

C6_Witness ==
  is_initialized_ /\ delta_t < 0 /\ Ran(log, "PredictMeanAndCovariance")

\* C6 as stated: a Ready call whose timestamp is less than or equal to the
\* stored one does not run a prediction and commit a modified state,
\* covariance and timestamp.
C6_NonPositiveElapsedTimeNotCommitted ==
  [][ (is_initialized_ /\ meas'.timestamp_ <= time_us_) =>
        ~(/\ Ran(log', "Prediction")
          /\ VecDiffers(x_', x_)
          /\ MatDiffers(P_', P_)
          /\ time_us_' # time_us_) ]_vars

\* C7: when the factorisation of the augmented covariance fails (the
\* covariance is not positive definite), the call does not go on to
\* propagate sigma points and overwrite x_ and P_.
C7_FailedFactorisationStopsPrediction ==
  [][ llt_info' = "NumericalIssue" =>
        (~Ran(log', "SigmaPointPrediction") /\ x_' = x_ /\ P_' = P_) ]_vars

\* C8: a call that runs UpdateLidar leaves NIS_radar_ unchanged, a call that
\* runs UpdateRadar leaves NIS_laser_ unchanged, a call that runs neither
\* (initialization, prediction alone) leaves both unchanged; and no NIS
\* value is read: the same call on a filter that differs only in its NIS
\* values returns the same x_, P_, sigma points and weights, and the same
\* NIS value of the update it ran (the value is overwritten, not added to).
C8_OneNISPerSensor ==
  [][ n_calls' # n_calls =>
        /\ ~Ran(log', "UpdateLidar") => NIS_laser_' = NIS_laser_
        /\ ~Ran(log', "UpdateRadar") => NIS_radar_' = NIS_radar_
        /\ \A r \in { ProcessMeasurement([This EXCEPT !.NIS_laser_ = @ + SCALE,
                                                       !.NIS_radar_ = @ + 2 * SCALE],
                                          meas') } :
              /\ r.x_ = x_'
              /\ r.P_ = P_'
              /\ r.Xsig_pred_ = Xsig_pred_'
              /\ r.weights_ = weights_'
              /\ r.is_initialized_ = is_initialized_'
              /\ r.time_us_ = time_us_'
              /\ Ran(log', "UpdateLidar") => r.NIS_laser_ = NIS_laser_'
              /\ Ran(log', "UpdateRadar") => r.NIS_radar_ = NIS_radar_' ]_vars

\* a laser update after a radar update: the radar's value is still there
C8_Witness == Ran(log, "UpdateLidar") /\ NIS_radar_ # 0 /\ NIS_laser_ # 0

\* 3 * (significand of w) is within 1 of 2^54: the significand is the 53
\* bit integer nearest to 2^54 / 3, and w the double nearest to 4/3 * 2^w.exp
FourThirds(w) ==
  LET k == 4 * P26 - 3 * w.hi
  IN k \in 0..2 /\ Abs(3 * w.lo - k * P26) <= 1

\* (sum of the weights ws) - 1 in units of 2^-55, if it is within `most`
\* units of 0, and most + 1 otherwise
SumError(ws, most) ==
  LET Signed(w, v) == IF w.neg THEN 0 - v * Pow2(w.exp + 3) ELSE v * Pow2(w.exp + 3)
      hi == Sum(LAMBDA i : Signed(ws[i], ws[i].hi), Len(ws)) - 8 * P26
      lo == Sum(LAMBDA i : Signed(ws[i], ws[i].lo), Len(ws))
  IN IF Abs(hi) <= 4 /\ Abs(hi * P26 + lo) <= most THEN hi * P26 + lo ELSE most + 1

\* the weights are as line 333-335 computes them
WeightsAsComputed(ws) ==
  /\ Len(ws) = 2 * n_aug_ + 1
  /\ ws[1].neg /\ ws[1].exp = 0 /\ FourThirds(ws[1])
  /\ \A i \in 2..Len(ws) : ~ws[i].neg /\ ws[i].exp = 0 - 3 /\ FourThirds(ws[i])

\* C9 as amended: the weights vector has 15 entries, the first the double
\* nearest to -4/3 and every other the double nearest to 1/6; the entries
\* sum to 1 within one unit in the last place of 1 (2^-52 = 8 * 2^-55);
\* every Prediction writes this vector, and once written it never changes.
C9_WeightsSumToOneWithinRounding ==
  [][ /\ Ran(log', "Prediction") => weights_' # << >>
      /\ weights_' # << >> =>
           (WeightsAsComputed(weights_') /\ Abs(SumError(weights_', 8)) <= 8)
      /\ weights_ # << >> => weights_' = weights_ ]_vars

C9_Witness == n_calls = 3 /\ Len(weights_) = 2 * n_aug_ + 1 /\ Len(log) > 4

\* C9 as stated: ... the entries sum to exactly 1 ...
C9_WeightsSumToExactlyOne ==
  [][ /\ Ran(log', "Prediction") => weights_' # << >>
      /\ weights_' # << >> =>
           (WeightsAsComputed(weights_') /\ SumError(weights_', 8) = 0)
      /\ weights_ # << >> => weights_' = weights_ ]_vars

\* C10: the constructor leaves weights_ and Xsig_pred_ unset, and a call
\* that runs UpdateLidar or UpdateRadar has run, before it and in this
\* order, Prediction with SigmaPointPrediction (which writes Xsig_pred_) and
\* PredictMeanAndCovariance (which writes weights_): the update reads what
\* this call wrote.
C10_UpdateReadsWhatThisCallPredicted ==
  [][ /\ n_calls = 0 => (weights_ = << >> /\ Xsig_pred_ = << >>)
      /\ (Ran(log', "UpdateLidar") \/ Ran(log', "UpdateRadar")) =>
           /\ Len(log') = 5
           /\ SubSeq(log', 1, 4) = PredictionLog
           /\ Len(Xsig_pred_') = n_sig_
           /\ Len(weights_') = n_sig_ ]_vars

\* an update in a call that found sigma points of the call before
C10_Witness == n_calls = 3 /\ Len(log) = 5 /\ delta_t = 0

====
